---- MODULE Spec2Model ----
(***************************************************************************)
(* A model of the ToDo list application of src/main.py: the TaskModel      *)
(* store (add / delete / toggle / edit, save_tasks, load_tasks), the       *)
(* persistence file, the completion sound, and the two windows that       *)
(* observe the store's data_changed signal and render rows from it.       *)
(*                                                                         *)
(* Conventions.                                                            *)
(*  - A Python str is a sequence of one-character strings; "" is << >>.    *)
(*  - Python list indices are 0-based: self.tasks[i] is tasks[i + 1].      *)
(*  - A Task object is identified by its position in self.tasks: the list  *)
(*    never holds the same object twice, so "x is y" for two elements of   *)
(*    the list is equality of their positions.  A rendered row keeps the   *)
(*    position its Task object had when the row was built.                 *)
(*  - One action is one whole Qt event handler (the event loop is single   *)
(*    threaded): the mutation, save_tasks(), data_changed.emit() with the  *)
(*    update_ui() of every connected window, and the sound.                *)
(*  - events is the log of what the last handler did, in the order the     *)
(*    code does it: "save_ok" / "save_error" for the one write attempt of  *)
(*    save_tasks, "emit" for data_changed.emit(), "play_ok" /              *)
(*    "play_error" for complete_sound.play(), "raise" for an exception     *)
(*    leaving the handler.                                                 *)
(***************************************************************************)
EXTENDS Integers, Sequences, FiniteSets

VARIABLES
    tasks,            \* TaskModel.tasks: sequence of Task records
    file,             \* content of tasks.json
    faults,           \* number of write attempts that have failed
    complete_sound,   \* TaskModel.complete_sound: "None" or "Sound"
    mainVisible,      \* MainWindow.isVisible()
    mini_window,      \* MainWindow.mini_window: "None", "visible", "hidden"
    mainActive,       \* rows of MainWindow.task_layout (positions in tasks)
    mainCompleted,    \* rows of MainWindow.completed_layout
    completedHeader,  \* N of the "Completed N" header text
    miniRows,         \* rows of MiniWindow.task_layout
    events,           \* log of the last handler
    last,             \* name of the last handler that ran
    toggle_before     \* << >>, or <<[index, tasks, twice]>> when the last
                      \* handler was an accepted toggle_complete(index): the
                      \* store before it, and whether the handler before it
                      \* was an accepted toggle_complete(index) too

vars == <<tasks, file, faults, complete_sound, mainVisible, mini_window,
          mainActive, mainCompleted, completedHeader, miniRows, events, last,
          toggle_before>>

storeVars == <<tasks, file, faults>>
viewVars == <<mainActive, mainCompleted, completedHeader, miniRows>>
windowVars == <<mainVisible, mini_window>>

(***************************************************************************)
(* Bounds of the model.                                                    *)
(***************************************************************************)
MaxTasks == 2
MaxFaults == 1
\* longest array of records in a hand-made tasks.json
MaxItems == 3

(***************************************************************************)
(* Inputs.                                                                 *)
(***************************************************************************)
\* descriptions handed to the store's operations by a caller
Descriptions == { << >>, <<" ">>, <<"a">> }
\* texts typed into a QLineEdit
Texts == { << >>, <<" ">>, <<" ", "a">>, <<"b">> }
\* indices handed to the store's operations: -1, every valid one, and len
Indices == -1 .. Len(tasks)

Min(S) == CHOOSE x \in S : \A y \in S : x <= y

(***************************************************************************)
(* Python str                                                              *)
(***************************************************************************)
Truthy(s) == Len(s) > 0

RECURSIVE lstrip(_)
lstrip(s) == IF s # << >> /\ Head(s) = " " THEN lstrip(Tail(s)) ELSE s

RECURSIVE rstrip(_)
rstrip(s) ==
    IF s # << >> /\ s[Len(s)] = " " THEN rstrip(SubSeq(s, 1, Len(s) - 1)) ELSE s

strip(s) == rstrip(lstrip(s))

(***************************************************************************)
(* class Task                                                              *)
(***************************************************************************)
Task(description, completed, prioritized) ==
    [description |-> description, completed |-> completed,
     prioritized |-> prioritized]

\* Task.__eq__
TaskEq(a, b) ==
    /\ a.description = b.description
    /\ a.completed = b.completed
    /\ a.prioritized = b.prioritized

(***************************************************************************)
(* The persistence file.  A file is a record with a kind:                  *)
(*   "missing"     os.path.isfile is false                                 *)
(*   "unreadable"  open(..., "r") raises IOError                           *)
(*   "malformed"   json.load raises JSONDecodeError (this is also what a   *)
(*                 write interrupted after open(..., "w") truncated the    *)
(*                 file leaves behind)                                     *)
(*   "nonlist"     valid JSON that is not an array                         *)
(*   "array"       a JSON array, items its elements: an object (its        *)
(*                 fields a record) or anything else                       *)
(***************************************************************************)
JsonObject(fields) == [type |-> "object", fields |-> fields]
JsonOther == [type |-> "other"]
JsonArray(items) == [kind |-> "array", items |-> items]
Missing == [kind |-> "missing"]
Unreadable == [kind |-> "unreadable"]
Malformed == [kind |-> "malformed"]
NonList == [kind |-> "nonlist"]

\* a dump that forgets the "prioritized" key
JsonDump_NoPriority(ts) ==
    JsonArray([i \in 1 .. Len(ts) |->
        JsonObject([description |-> ts[i].description,
                    completed |-> ts[i].completed])])

\* the list comprehension of save_tasks followed by json.dump
JsonDump(ts) ==
    JsonArray([i \in 1 .. Len(ts) |->
        JsonObject([description |-> ts[i].description,
                    completed |-> ts[i].completed,
                    prioritized |-> ts[i].prioritized])])

\* save_tasks without its except clause: the IOError leaves the handler
save_tasks_NoExcept(ts, f, io) ==
    CASE io = "ok" -> [file |-> JsonDump(ts), event |-> "save_ok", raised |-> FALSE]
      [] io = "open_failed" ->
            [file |-> f, event |-> "save_error", raised |-> TRUE]
      [] OTHER -> [file |-> Malformed, event |-> "save_error", raised |-> TRUE]

\* save_tasks: io is what the file system does with this one write attempt
\*   "ok"           the file holds the dump
\*   "open_failed"  open(..., "w") raises IOError: the file is untouched
\*   "write_failed" open truncated the file, then the write or the flush at
\*                  close raises IOError: what is left does not parse
\* IOError is caught and printed: nothing is raised, nothing is retried.
save_tasks(ts, f, io) ==
    LET data == JsonDump(ts) IN
    CASE io = "ok" -> [file |-> data, event |-> "save_ok", raised |-> FALSE]
      [] io = "open_failed" ->
            [file |-> f, event |-> "save_error", raised |-> FALSE]
      [] OTHER -> [file |-> Malformed, event |-> "save_error", raised |-> FALSE]

\* a loop that stops at the first invalid record instead of skipping it
RECURSIVE load_items_StopAtInvalid(_)
load_items_StopAtInvalid(items) ==
    IF items = << >> THEN << >>
    ELSE LET t_data == Head(items) IN
         IF /\ t_data.type = "object"
            /\ "description" \in DOMAIN t_data.fields
            /\ "completed" \in DOMAIN t_data.fields
         THEN <<Task(t_data.fields.description, t_data.fields.completed,
                     IF "prioritized" \in DOMAIN t_data.fields
                     THEN t_data.fields.prioritized ELSE FALSE)>>
              \o load_items_StopAtInvalid(Tail(items))
         ELSE << >>

\* the records of the array that load_tasks keeps, in file order
RECURSIVE load_items(_)
load_items(items) ==
    IF items = << >> THEN << >>
    ELSE LET t_data == Head(items) IN
         IF /\ t_data.type = "object"
            /\ "description" \in DOMAIN t_data.fields
            /\ "completed" \in DOMAIN t_data.fields
         THEN <<Task(t_data.fields.description, t_data.fields.completed,
                     IF "prioritized" \in DOMAIN t_data.fields
                     THEN t_data.fields.prioritized ELSE FALSE)>>
              \o load_items(Tail(items))
         ELSE load_items(Tail(items))

\* load_tasks without json.JSONDecodeError in its except clause
load_tasks_NoCatch(f) ==
    IF f.kind = "array" THEN [tasks |-> load_items(f.items), raised |-> FALSE]
    ELSE [tasks |-> << >>, raised |-> f.kind = "malformed"]

\* load_tasks: the store it leaves, and whether an exception leaves it
load_tasks(f) ==
    IF f.kind = "missing" THEN [tasks |-> << >>, raised |-> FALSE]
    ELSE IF f.kind = "unreadable" THEN [tasks |-> << >>, raised |-> FALSE]
    ELSE IF f.kind = "malformed" THEN [tasks |-> << >>, raised |-> FALSE]
    ELSE IF f.kind = "array"
         THEN [tasks |-> load_items(f.items), raised |-> FALSE]
         ELSE [tasks |-> << >>, raised |-> FALSE]

(***************************************************************************)
(* update_ui: the projections a window renders.  Rows are positions        *)
(* (0-based) of the Task objects in the store.                             *)
(***************************************************************************)
\* the sort key of update_ui: not t.prioritized (False sorts before True)
SortKey(ts, p) == IF ts[p + 1].prioritized THEN 0 ELSE 1

\* list.sort(key=...) is stable: insert each element after the elements
\* whose key is not greater
RECURSIVE insert_sorted(_, _, _)
insert_sorted(ts, sorted, p) ==
    IF sorted = << >> THEN <<p>>
    ELSE IF SortKey(ts, Head(sorted)) <= SortKey(ts, p)
         THEN <<Head(sorted)>> \o insert_sorted(ts, Tail(sorted), p)
         ELSE <<p>> \o sorted

RECURSIVE sort_rows(_, _)
sort_rows(ts, rows) ==
    IF rows = << >> THEN << >>
    ELSE insert_sorted(ts, sort_rows(ts, SubSeq(rows, 1, Len(rows) - 1)),
                       rows[Len(rows)])

Positions(ts) == [i \in 1 .. Len(ts) |-> i - 1]
IsActive(ts, p) == ~ts[p + 1].completed
IsCompleted(ts, p) == ts[p + 1].completed

\* the list of active tasks without the sort
active_tasks_Unsorted(ts) == SelectSeq(Positions(ts), LAMBDA p : IsActive(ts, p))

active_tasks(ts) ==
    sort_rows(ts, SelectSeq(Positions(ts), LAMBDA p : IsActive(ts, p)))
completed_tasks(ts) == SelectSeq(Positions(ts), LAMBDA p : IsCompleted(ts, p))

\* The slots connected to data_changed.  MainWindow.__init__ connects the
\* main window's update_ui.  MiniWindow.__init__ connects the mini window's;
\* nothing ever calls disconnect, so the MiniWindow object that
\* MainWindow.mini_window refers to stays connected after close().  A
\* MiniWindow object that show_mini_window replaces loses its only reference
\* and is destroyed, its connection with it.
MainConnected == TRUE
MiniConnected == mini_window # "None"
Subscribers ==
    (IF MainConnected THEN 1 ELSE 0) + (IF MiniConnected THEN 1 ELSE 0)

\* an emit that reaches only the window that is shown
Notify_VisibleOnly(ts) ==
    /\ mainActive' = IF mainVisible THEN active_tasks(ts) ELSE mainActive
    /\ mainCompleted' = IF mainVisible THEN completed_tasks(ts) ELSE mainCompleted
    /\ completedHeader' =
          IF mainVisible THEN Len(completed_tasks(ts)) ELSE completedHeader
    /\ miniRows' = IF mini_window = "visible" THEN active_tasks(ts) ELSE miniRows

\* data_changed.emit(): update_ui of every connected window
Notify(ts) ==
    /\ mainActive' = IF MainConnected THEN active_tasks(ts) ELSE mainActive
    /\ mainCompleted' =
          IF MainConnected THEN completed_tasks(ts) ELSE mainCompleted
    /\ completedHeader' =
          IF MainConnected THEN Len(completed_tasks(ts)) ELSE completedHeader
    /\ miniRows' = IF MiniConnected THEN active_tasks(ts) ELSE miniRows

(***************************************************************************)
(* class TaskModel                                                         *)
(***************************************************************************)
IoOutcomes ==
    IF faults < MaxFaults THEN {"ok", "open_failed", "write_failed"} ELSE {"ok"}
\* complete_sound.play() returns, or raises pygame.error (caught, printed)
PlayOutcomes == {<<"play_ok">>, <<"play_error">>}

\* the two calls in the other order: observers are told before the write
SaveAndEmit_EmitFirst(ts, tail) ==
    \E io \in IoOutcomes :
        LET r == save_tasks(ts, file, io) IN
        /\ file' = r.file
        /\ faults' = IF io = "ok" THEN faults ELSE faults + 1
        /\ Notify(ts)
        /\ events' = <<"emit", r.event>> \o tail

\* self.save_tasks(); self.data_changed.emit(); then `tail`
SaveAndEmit(ts, tail) ==
    \E io \in IoOutcomes :
        LET r == save_tasks(ts, file, io) IN
        /\ file' = r.file
        /\ faults' = IF io = "ok" THEN faults ELSE faults + 1
        /\ IF r.raised
           THEN /\ UNCHANGED viewVars
                /\ events' = <<r.event, "raise">>
           ELSE /\ Notify(ts)
                /\ events' = <<r.event, "emit">> \o tail

\* the else branches: a warning is printed, nothing else happens
Reject ==
    /\ UNCHANGED storeVars
    /\ UNCHANGED viewVars
    /\ events' = << >>

\* insert(0, ...) instead of append
add_task_Prepend(description) ==
    IF Truthy(description)
    THEN /\ tasks' = <<Task(description, FALSE, FALSE)>> \o tasks
         /\ SaveAndEmit(tasks', << >>)
    ELSE Reject

add_task(description) ==
    IF Truthy(description)
    THEN /\ tasks' = Append(tasks, Task(description, FALSE, FALSE))
         /\ SaveAndEmit(tasks', << >>)
    ELSE Reject

RemoveAt(ts, index) ==
    SubSeq(ts, 1, index) \o SubSeq(ts, index + 2, Len(ts))

\* the guard without its lower bound: del self.tasks[-1] removes the last
delete_task_NoLowerBound(index) ==
    IF index < Len(tasks) /\ Len(tasks) > 0
    THEN /\ tasks' = RemoveAt(tasks, IF index < 0 THEN index + Len(tasks) ELSE index)
         /\ SaveAndEmit(tasks', << >>)
    ELSE Reject

delete_task(index) ==
    IF 0 <= index /\ index < Len(tasks)
    THEN /\ tasks' = RemoveAt(tasks, index)
         /\ SaveAndEmit(tasks', << >>)
    ELSE Reject

\* the sound played on every toggle, not only on completion
toggle_complete_AlwaysPlays(index) ==
    IF 0 <= index /\ index < Len(tasks)
    THEN /\ tasks' = [tasks EXCEPT ![index + 1].completed = ~@]
         /\ \E played \in (IF complete_sound # "None"
                            THEN PlayOutcomes ELSE {<< >>}) :
                SaveAndEmit(tasks', played)
    ELSE Reject

\* task.completed = True instead of not task.completed
toggle_complete_SetsTrue(index) ==
    IF 0 <= index /\ index < Len(tasks)
    THEN /\ tasks' = [tasks EXCEPT ![index + 1].completed = TRUE]
         /\ \E played \in (IF tasks'[index + 1].completed /\ complete_sound # "None"
                            THEN PlayOutcomes ELSE {<< >>}) :
                SaveAndEmit(tasks', played)
    ELSE Reject

toggle_complete(index) ==
    IF 0 <= index /\ index < Len(tasks)
    THEN /\ tasks' = [tasks EXCEPT ![index + 1].completed = ~@]
         /\ \E played \in (IF tasks'[index + 1].completed /\ complete_sound # "None"
                            THEN PlayOutcomes ELSE {<< >>}) :
                SaveAndEmit(tasks', played)
    ELSE Reject

toggle_priority(index) ==
    IF 0 <= index /\ index < Len(tasks)
    THEN /\ tasks' = [tasks EXCEPT ![index + 1].prioritized = ~@]
         /\ SaveAndEmit(tasks', << >>)
    ELSE Reject

edit_task(index, new_description) ==
    IF 0 <= index /\ index < Len(tasks) /\ Truthy(new_description)
    THEN /\ tasks' = [tasks EXCEPT ![index + 1].description = new_description]
         /\ SaveAndEmit(tasks', << >>)
    ELSE Reject

\* _find_task_index(task_instance), task_instance the object at position p:
\* list.index returns the first i with tasks[i] is x or tasks[i] == x
find_task_index(ts, p) ==
    LET hits == {i \in 0 .. Len(ts) - 1 : i = p \/ TaskEq(ts[i + 1], ts[p + 1])}
    IN IF hits = {} THEN -1 ELSE Min(hits)

(***************************************************************************)
(* class TaskItemWidget: the handlers of a rendered row.  p is the         *)
(* position of the row's Task object (self.task).                          *)
(***************************************************************************)
Elems(rows) == {rows[i] : i \in 1 .. Len(rows)}

\* the rows a user can click: those of the window that is shown
MainRows == IF mainVisible THEN Elems(mainActive) \cup Elems(mainCompleted) ELSE {}
MiniRows == IF mini_window = "visible" THEN Elems(miniRows) ELSE {}

\* a row built from a store that has since changed would hold a dead object
RowAlive(p) == 0 <= p /\ p < Len(tasks)

on_status_toggled(p) ==
    LET current_index == find_task_index(tasks, p) IN
    IF current_index # -1 THEN toggle_complete(current_index) ELSE Reject

on_priority_toggled(p) ==
    LET current_index == find_task_index(tasks, p) IN
    IF current_index # -1 THEN toggle_priority(current_index) ELSE Reject

\* show_context_menu, then the Delete action of the menu
context_menu_delete(p) ==
    LET current_index == find_task_index(tasks, p) IN
    IF current_index = -1 THEN Reject ELSE delete_task(current_index)

\* show_context_menu, the Edit action, then Save in the dialog (save_edit)
context_menu_edit(p, text) ==
    LET current_index == find_task_index(tasks, p)
        new_description == strip(text)
    IN IF current_index = -1 THEN Reject
       ELSE IF Truthy(new_description)
            THEN edit_task(current_index, new_description)
            ELSE Reject

(***************************************************************************)
(* class MainWindow, class MiniWindow                                      *)
(***************************************************************************)
\* MainWindow.add_task: returnPressed of the input line
MainWindow_add_task(text) == add_task(strip(text))

\* MainWindow.show_mini_window: MiniWindow.__init__ renders (init_ui calls
\* update_ui) and connects to data_changed
\* show_mini_window without self.hide()
show_mini_window_NoHide ==
    IF mini_window = "None" \/ mini_window # "visible"
    THEN /\ mini_window' = "visible"
         /\ miniRows' = active_tasks(tasks)
         /\ mainVisible' = mainVisible
    ELSE UNCHANGED <<mini_window, miniRows, mainVisible>>

show_mini_window ==
    IF mini_window = "None" \/ mini_window # "visible"
    THEN /\ mini_window' = "visible"
         /\ miniRows' = active_tasks(tasks)
         /\ mainVisible' = FALSE
    ELSE UNCHANGED <<mini_window, miniRows, mainVisible>>

\* MiniWindow.show_main_window: close() hides the mini window; the object
\* stays referenced by MainWindow.mini_window
show_main_window ==
    /\ mini_window' = "hidden"
    /\ mainVisible' = TRUE
    /\ UNCHANGED miniRows

(***************************************************************************)
(* Process start: TaskModel.__init__ (load_tasks, _init_sound), then       *)
(* MainWindow.__init__ (init_ui calls update_ui) and main_window.show().   *)
(***************************************************************************)
SoundStates == {"None", "Sound"}

Start(f) ==
    LET r == load_tasks(f) IN
    /\ file' = f
    /\ tasks' = r.tasks
    /\ complete_sound' \in SoundStates
    /\ mainVisible' = TRUE
    /\ mini_window' = "None"
    /\ mainActive' = active_tasks(r.tasks)
    /\ mainCompleted' = completed_tasks(r.tasks)
    /\ completedHeader' = Len(completed_tasks(r.tasks))
    /\ miniRows' = << >>
    /\ events' = IF r.raised THEN <<"raise">> ELSE << >>
    /\ last' = "load_tasks"
    /\ toggle_before' = << >>

\* files found at the first start
InitialFiles ==
    { Missing, Unreadable, Malformed, NonList,
      JsonArray(<< >>),
      JsonArray(<<JsonObject([description |-> <<"a">>, completed |-> TRUE]),
                  JsonObject([description |-> <<"a">>]),
                  JsonOther,
                  JsonObject([description |-> <<" ">>, completed |-> FALSE,
                              prioritized |-> TRUE])>>) }

\* the records of a hand-made tasks.json: something that is not an object,
\* objects without a description, with an empty one, and with description
\* "a" and every combination of completed and prioritized absent / true /
\* false
JsonItems ==
    { JsonOther,
      JsonObject([completed |-> FALSE, prioritized |-> TRUE]),
      JsonObject([prioritized |-> FALSE]),
      JsonObject([description |-> << >>, completed |-> FALSE]),
      JsonObject([description |-> <<"a">>]),
      JsonObject([description |-> <<"a">>, prioritized |-> TRUE]),
      JsonObject([description |-> <<"a">>, prioritized |-> FALSE]),
      JsonObject([description |-> <<"a">>, completed |-> FALSE]),
      JsonObject([description |-> <<"a">>, completed |-> TRUE]),
      JsonObject([description |-> <<"a">>, completed |-> FALSE,
                  prioritized |-> FALSE]),
      JsonObject([description |-> <<"a">>, completed |-> FALSE,
                  prioritized |-> TRUE]),
      JsonObject([description |-> <<"a">>, completed |-> TRUE,
                  prioritized |-> FALSE]),
      JsonObject([description |-> <<"a">>, completed |-> TRUE,
                  prioritized |-> TRUE]) }

\* every array of at most MaxItems such records
LoadFiles ==
    { JsonArray(items) :
        items \in UNION { [1 .. n -> JsonItems] : n \in 0 .. MaxItems } }

\* the state after the first start on one of `files`, k I/O failures
\* already spent
InitFrom(files, k) ==
    /\ file \in files
    /\ faults = k
    /\ tasks = load_tasks(file).tasks
    /\ complete_sound \in SoundStates
    /\ mainVisible = TRUE
    /\ mini_window = "None"
    /\ mainActive = active_tasks(tasks)
    /\ mainCompleted = completed_tasks(tasks)
    /\ completedHeader = Len(completed_tasks(tasks))
    /\ miniRows = << >>
    /\ events = IF load_tasks(file).raised THEN <<"raise">> ELSE << >>
    /\ last = "load_tasks"
    /\ toggle_before = << >>

InitWith(k) == InitFrom(InitialFiles, k)

Init == InitWith(0)

(***************************************************************************)
(* The actions: one per handler.                                           *)
(***************************************************************************)
\* the model stops growing the store at MaxTasks
Room(description) == Truthy(description) => Len(tasks) < MaxTasks

\* bookkeeping of a store operation op called with index; a call that did
\* nothing (no write, no signal) is remembered as "rejected"
Called(op, index) ==
    /\ last' = IF events' = << >> THEN "rejected" ELSE op
    /\ toggle_before' =
          IF op = "toggle_complete" /\ 0 <= index /\ index < Len(tasks)
          THEN <<[index |-> index, tasks |-> tasks,
                  twice |-> /\ toggle_before # << >>
                            /\ toggle_before[1].index = index]>>
          ELSE << >>
    /\ UNCHANGED <<windowVars, complete_sound>>

\* the store's operations called with any argument
CallAddTask ==
    \E d \in Descriptions : Room(d) /\ add_task(d) /\ Called("add_task", -1)
CallDeleteTask ==
    \E i \in Indices : delete_task(i) /\ Called("delete_task", i)
CallToggleComplete ==
    \E i \in Indices : toggle_complete(i) /\ Called("toggle_complete", i)
CallTogglePriority ==
    \E i \in Indices : toggle_priority(i) /\ Called("toggle_priority", i)
CallEditTask ==
    \E i \in Indices, d \in Descriptions :
        edit_task(i, d) /\ Called("edit_task", i)

\* the user's actions
TypeTask ==
    /\ mainVisible
    /\ \E text \in Texts :
          Room(strip(text)) /\ MainWindow_add_task(text) /\ Called("add_task", -1)
ClickStatus ==
    \E p \in MainRows \cup MiniRows :
        /\ RowAlive(p)
        /\ on_status_toggled(p)
        /\ Called("toggle_complete", find_task_index(tasks, p))
ClickPriority ==
    \E p \in MainRows \cup MiniRows :
        /\ RowAlive(p)
        /\ on_priority_toggled(p)
        /\ Called("toggle_priority", find_task_index(tasks, p))
MenuDelete ==
    \E p \in MainRows :
        /\ RowAlive(p)
        /\ context_menu_delete(p)
        /\ Called("delete_task", find_task_index(tasks, p))
MenuEdit ==
    \E p \in MainRows, text \in Texts :
        /\ RowAlive(p)
        /\ context_menu_edit(p, text)
        /\ Called("edit_task", find_task_index(tasks, p))
SwitchToMini ==
    /\ mainVisible
    /\ show_mini_window
    /\ last' = "show_mini_window"
    /\ toggle_before' = << >>
    /\ events' = << >>
    /\ UNCHANGED <<storeVars, complete_sound, mainActive, mainCompleted,
                   completedHeader>>
BackToMain ==
    /\ mini_window = "visible"
    /\ show_main_window
    /\ last' = "show_main_window"
    /\ toggle_before' = << >>
    /\ events' = << >>
    /\ UNCHANGED <<storeVars, complete_sound, mainActive, mainCompleted,
                   completedHeader>>
\* the process exits and is started again
Restart ==
    /\ Start(file)
    /\ UNCHANGED faults

NextStore ==
    \/ CallAddTask
    \/ CallDeleteTask
    \/ CallToggleComplete
    \/ CallTogglePriority
    \/ CallEditTask
    \/ Restart

\* the store driven by any caller, with a file system that may fail
Spec == Init /\ [][NextStore]_vars

NextUI ==
    \/ TypeTask
    \/ ClickStatus
    \/ ClickPriority
    \/ MenuDelete
    \/ MenuEdit
    \/ SwitchToMini
    \/ BackToMain
    \/ Restart

\* the application driven by its user through the two windows, with a
\* file system that does not fail
InitUI == InitWith(MaxFaults)
SpecUI == InitUI /\ [][NextUI]_vars

NextLoad ==
    \/ Restart
    \/ SwitchToMini
    \/ BackToMain

\* the application started on any hand-made array of records and looked at
\* through its two windows, the store left alone
InitLoad == InitFrom(LoadFiles, 0)
SpecLoad == InitLoad /\ [][NextLoad]_vars

(***************************************************************************)
(* What the specification expects of the store, stated on its own.         *)
(***************************************************************************)
ValidIndex(i) == 0 <= i /\ i < Len(tasks)
NewTask(d) == [description |-> d, completed |-> FALSE, prioritized |-> FALSE]

\* ts2 is ts1 without the element at 0-based position i
Removed(ts1, ts2, i) ==
    /\ Len(ts2) = Len(ts1) - 1
    /\ \A j \in 1 .. Len(ts2) : ts2[j] = IF j <= i THEN ts1[j] ELSE ts1[j + 1]

\* ts2 is ts1 with only the completed flag at 0-based position i flipped
CompletedFlipped(ts1, ts2, i) ==
    /\ Len(ts2) = Len(ts1)
    /\ \A j \in 1 .. Len(ts1) :
          IF j = i + 1
          THEN ts2[j] = [ts1[j] EXCEPT !.completed = ~ts1[j].completed]
          ELSE ts2[j] = ts1[j]

PriorityFlipped(ts1, ts2, i) ==
    /\ Len(ts2) = Len(ts1)
    /\ \A j \in 1 .. Len(ts1) :
          IF j = i + 1
          THEN ts2[j] = [ts1[j] EXCEPT !.prioritized = ~ts1[j].prioritized]
          ELSE ts2[j] = ts1[j]

Redescribed(ts1, ts2, i, d) ==
    /\ Len(ts2) = Len(ts1)
    /\ \A j \in 1 .. Len(ts1) :
          IF j = i + 1
          THEN ts2[j] = [ts1[j] EXCEPT !.description = d]
          ELSE ts2[j] = ts1[j]

SameFields(ts1, ts2) ==
    /\ Len(ts1) = Len(ts2)
    /\ \A j \in 1 .. Len(ts1) :
          /\ ts1[j].description = ts2[j].description
          /\ ts1[j].completed = ts2[j].completed
          /\ ts1[j].prioritized = ts2[j].prioritized

Count(ev, S) == Cardinality({k \in 1 .. Len(ev) : ev[k] \in S})
SaveEvents == {"save_ok", "save_error"}
PlayEvents == {"play_ok", "play_error"}
Writes(ev) == Count(ev, SaveEvents)
Notifications(ev) == Count(ev, {"emit"})
Plays(ev) == Count(ev, PlayEvents)
Raised(ev) == Count(ev, {"raise"}) > 0
\* one write attempt, then one notification
WriteThenNotify(ev) ==
    /\ Writes(ev) = 1
    /\ Notifications(ev) = 1
    /\ \A j, k \in 1 .. Len(ev) :
          (ev[j] \in SaveEvents /\ ev[k] = "emit") => j < k
WriteFailed(ev) == Count(ev, {"save_error"}) > 0
WriteSucceeded(ev) == Count(ev, {"save_ok"}) > 0

\* this step is a mutation of the store with valid input
AcceptedMutation ==
    \/ \E d \in Descriptions : d # << >> /\ add_task(d)
    \/ \E i \in Indices : ValidIndex(i) /\ delete_task(i)
    \/ \E i \in Indices : ValidIndex(i) /\ toggle_complete(i)
    \/ \E i \in Indices : ValidIndex(i) /\ toggle_priority(i)
    \/ \E i \in Indices, d \in Descriptions :
          ValidIndex(i) /\ d # << >> /\ edit_task(i, d)

\* after this step the store holds what the mutation asked for
MutationApplied ==
    /\ \A d \in Descriptions :
          (d # << >> /\ add_task(d)) => tasks' = Append(tasks, NewTask(d))
    /\ \A i \in Indices :
          (ValidIndex(i) /\ delete_task(i)) => Removed(tasks, tasks', i)
    /\ \A i \in Indices :
          (ValidIndex(i) /\ toggle_complete(i)) => CompletedFlipped(tasks, tasks', i)
    /\ \A i \in Indices :
          (ValidIndex(i) /\ toggle_priority(i)) => PriorityFlipped(tasks, tasks', i)
    /\ \A i \in Indices, d \in Descriptions :
          (ValidIndex(i) /\ d # << >> /\ edit_task(i, d))
              => Redescribed(tasks, tasks', i, d)

\* nothing observable happened: store and file as before, no write attempt,
\* no notification, no exception
NoOp ==
    /\ tasks' = tasks
    /\ file' = file
    /\ Writes(events') = 0
    /\ Notifications(events') = 0
    /\ ~Raised(events')
    /\ UNCHANGED viewVars

(***************************************************************************)
(* C1: add_task(d) with a non-empty d makes the store one longer, the new  *)
(* task is the last one, with description d, completed = false and         *)
(* prioritized = false, and every task that was already there keeps its    *)
(* position and its three fields.                                          *)
(***************************************************************************)
C1_AddAppends ==
    [][\A d \in Descriptions :
          (d # << >> /\ add_task(d)) =>
              /\ Len(tasks') = Len(tasks) + 1
              /\ tasks'[Len(tasks')] = NewTask(d)
              /\ \A j \in 1 .. Len(tasks) : tasks'[j] = tasks[j]]_vars

\* an add has just put "a" behind a completed task
C1_Witness ==
    /\ last = "add_task"
    /\ Len(tasks) = 2
    /\ tasks[1].completed
    /\ tasks[2] = NewTask(<<"a">>)

(***************************************************************************)
(* C2: add_task with the empty string or a whitespace-only string is a     *)
(* no-op: store and file unchanged, nothing written, no notification.      *)
(* The code tests `if description:`, which a whitespace-only string        *)
(* passes; only MainWindow.add_task strips the text.                       *)
(***************************************************************************)
C2_BlankAddIsNoOp ==
    [][\A d \in Descriptions : (strip(d) = << >> /\ add_task(d)) => NoOp]_vars

(***************************************************************************)
(* C3: a toggle-completed, toggle-priority, edit or delete issued from the *)
(* rendered row of the task at position p changes (or removes) that task   *)
(* and no other, also when an equal task sits at an earlier position.      *)
(* The handlers look the row's task up with list.index, which compares     *)
(* with Task.__eq__ and returns the first equal task.                      *)
(***************************************************************************)
C3_RowTargetsItsOwnTask ==
    [][\A p \in MainRows \cup MiniRows :
          RowAlive(p) =>
              /\ on_status_toggled(p) => CompletedFlipped(tasks, tasks', p)
              /\ on_priority_toggled(p) => PriorityFlipped(tasks, tasks', p)
              /\ (p \in MainRows /\ context_menu_delete(p))
                    => Removed(tasks, tasks', p)
              /\ \A text \in Texts :
                    (p \in MainRows /\ strip(text) # << >>
                        /\ context_menu_edit(p, text))
                    => Redescribed(tasks, tasks', p, strip(text))]_vars

(***************************************************************************)
(* C4: each accepted mutation makes exactly one write attempt of the full  *)
(* store and then emits exactly one data-changed notification, in that     *)
(* order; the observers render the store the write attempt was made for.   *)
(***************************************************************************)
C4_OneWriteThenOneNotification ==
    [][AcceptedMutation =>
          /\ WriteThenNotify(events')
          /\ WriteSucceeded(events') => file' = JsonDump(tasks')
          /\ mainActive' = active_tasks(tasks')
          /\ mainCompleted' = completed_tasks(tasks')]_vars

\* a toggle whose write failed has still notified, once, after the attempt
C4_Witness ==
    /\ last = "toggle_complete"
    /\ events = <<"save_error", "emit", "play_ok">>

C6_InvalidInputIsNoOp ==
    [][/\ \A i \in Indices, d \in Descriptions :
             (~ValidIndex(i) /\ (\/ delete_task(i)
                                 \/ toggle_complete(i)
                                 \/ toggle_priority(i)
                                 \/ edit_task(i, d))) => NoOp
       /\ \A i \in Indices : edit_task(i, << >>) => NoOp]_vars

\* a call has just been refused on a store that holds tasks
C6_Witness ==
    /\ last = "rejected"
    /\ events = << >>
    /\ tasks # << >>
    /\ file = JsonDump(tasks)

(***************************************************************************)
(* C7 as stated: every toggle-completed from false to true triggers        *)
(* exactly one completion sound, every one from true to false none, no     *)
(* other operation triggers it, and a failure of the player leaves store   *)
(* and file as the toggle left them.                                       *)
(***************************************************************************)
SoundFailureHarmless ==
    \A i \in Indices :
        (ValidIndex(i) /\ toggle_complete(i) /\ Count(events', {"play_error"}) > 0)
        => /\ CompletedFlipped(tasks, tasks', i)
           /\ ~Raised(events')
           /\ WriteSucceeded(events') => file' = JsonDump(tasks')
           /\ WriteFailed(events') => (file' = file \/ file' = Malformed)

NoSoundElsewhere ==
    (~\E i \in Indices : ValidIndex(i) /\ toggle_complete(i)) => Plays(events') = 0

C7_SoundOnEveryCompletion ==
    [][/\ \A i \in Indices :
             (ValidIndex(i) /\ toggle_complete(i)) =>
                 Plays(events') = IF ~tasks[i + 1].completed THEN 1 ELSE 0
       /\ NoSoundElsewhere
       /\ SoundFailureHarmless]_vars

(***************************************************************************)
(* C7 as amended: ... from false to true triggers exactly one completion   *)
(* sound when a sound was loaded at start-up (complete_sound is not None)  *)
(* and none when no sound was loaded; the rest as stated.                  *)
(***************************************************************************)
C7_SoundOnCompletionWhenLoaded ==
    [][/\ \A i \in Indices :
             (ValidIndex(i) /\ toggle_complete(i)) =>
                 Plays(events') =
                    IF ~tasks[i + 1].completed /\ complete_sound # "None"
                    THEN 1 ELSE 0
       /\ NoSoundElsewhere
       /\ SoundFailureHarmless]_vars

\* a task has just been completed, saved, and the player failed
C7_Witness ==
    /\ last = "toggle_complete"
    /\ events = <<"save_ok", "emit", "play_error">>
    /\ toggle_before # << >>
    /\ tasks[toggle_before[1].index + 1].completed
    /\ file = JsonDump(tasks)

(***************************************************************************)
(* C8 as stated: toggle-completed applied twice to a task returns the      *)
(* store to what it was, and after the first toggle the file holds the     *)
(* flipped value and after the second the original one.                    *)
(***************************************************************************)
SecondToggle(i) ==
    /\ toggle_before # << >>
    /\ toggle_before[1].index = i
    /\ ValidIndex(i)
    /\ toggle_complete(i)

C8_ToggleTwicePersisted ==
    [][\A i \in Indices :
          SecondToggle(i) =>
              /\ CompletedFlipped(toggle_before[1].tasks, tasks, i)
              /\ tasks' = toggle_before[1].tasks
              /\ file = JsonDump(tasks)
              /\ file' = JsonDump(tasks')]_vars

(***************************************************************************)
(* C8 as amended: ... and each of the two states is in the file after its  *)
(* toggle when the write of that toggle succeeds.                          *)
(***************************************************************************)
C8_ToggleTwiceRestores ==
    [][\A i \in Indices :
          SecondToggle(i) =>
              /\ CompletedFlipped(toggle_before[1].tasks, tasks, i)
              /\ tasks' = toggle_before[1].tasks
              /\ WriteSucceeded(events) => file = JsonDump(tasks)
              /\ WriteSucceeded(events') => file' = JsonDump(tasks')]_vars

\* the same task has just been toggled a second time, and saved
C8_Witness ==
    /\ last = "toggle_complete"
    /\ toggle_before # << >>
    /\ toggle_before[1].twice
    /\ WriteSucceeded(events)
    /\ file = JsonDump(tasks)

(***************************************************************************)
(* C9: a successful save followed by a fresh load (the process is started  *)
(* again) yields a store of the same length with the same description,     *)
(* completed and prioritized at every position.                            *)
(***************************************************************************)
C9_SaveLoadRoundTrip ==
    [][(WriteSucceeded(events) /\ Restart) => SameFields(tasks, tasks')]_vars

\* a store with a prioritized task has been loaded from what save wrote
C9_Witness ==
    /\ last = "load_tasks"
    /\ file = JsonDump(tasks)
    /\ \E j \in 1 .. Len(tasks) : tasks[j].prioritized

(***************************************************************************)
(* C10: when the file is missing, malformed, not an array or unreadable,   *)
(* load ends with an empty store and raises nothing: the application       *)
(* starts, its main window shown and empty.                                *)
(***************************************************************************)
WholeFileProblems == {"missing", "malformed", "nonlist", "unreadable"}

HasField(item, name) == item.type = "object" /\ name \in DOMAIN item.fields
Loadable(item) == HasField(item, "description") /\ HasField(item, "completed")
ExpectedTask(item) ==
    [description |-> item.fields.description,
     completed |-> item.fields.completed,
     prioritized |-> IF HasField(item, "prioritized")
                     THEN item.fields.prioritized ELSE FALSE]
\* the loadable records, in file order, each turned into its task
ExpectedLoad(items) ==
    LET kept == SelectSeq(items, Loadable)
    IN [j \in 1 .. Len(kept) |-> ExpectedTask(kept[j])]

(***************************************************************************)
(* C11: after a load of a file that holds an array, the store is exactly   *)
(* the records that have both description and completed, in file order,    *)
(* prioritized taken from the record or false when the record has none;    *)
(* records without description or completed, and items that are not        *)
(* objects, are skipped, nothing is raised, and the records before and     *)
(* after a skipped one are loaded all the same.                            *)
(***************************************************************************)
C11_LoadTolerantPerRecord ==
    (last = "load_tasks" /\ file.kind = "array") =>
        /\ tasks = ExpectedLoad(file.items)
        /\ ~Raised(events)

\* a file of three items has been loaded: a record without prioritized, an
\* item that is skipped, a record with prioritized = true
C11_Witness ==
    /\ last = "load_tasks"
    /\ file.kind = "array"
    /\ Len(file.items) = 3
    /\ Loadable(file.items[1]) /\ ~HasField(file.items[1], "prioritized")
    /\ ~Loadable(file.items[2])
    /\ Loadable(file.items[3]) /\ HasField(file.items[3], "prioritized")
    /\ Len(tasks) = 2
    /\ ~tasks[1].prioritized
    /\ tasks[2].prioritized

\* rows lists, without repetition, exactly the positions of ts that are Wanted
Lists(rows, ts, Wanted(_)) ==
    /\ \A j, k \in 1 .. Len(rows) : j # k => rows[j] # rows[k]
    /\ {rows[j] : j \in 1 .. Len(rows)} = {p \in 0 .. Len(ts) - 1 : Wanted(ts[p + 1])}
\* rows keeps the store's insertion order
InsertionOrder(rows) == \A j, k \in 1 .. Len(rows) : j < k => rows[j] < rows[k]
\* no unprioritized task before a prioritized one, and insertion order
\* between two tasks of the same priority
PrioritizedFirst(rows, ts) ==
    \A j, k \in 1 .. Len(rows) :
        j < k =>
            /\ ts[rows[j] + 1].prioritized \/ ~ts[rows[k] + 1].prioritized
            /\ (ts[rows[j] + 1].prioritized = ts[rows[k] + 1].prioritized)
                  => rows[j] < rows[k]
ActiveProjection(rows, ts) ==
    /\ Lists(rows, ts, LAMBDA t : ~t.completed)
    /\ PrioritizedFirst(rows, ts)
CompletedProjection(rows, ts) ==
    /\ Lists(rows, ts, LAMBDA t : t.completed)
    /\ InsertionOrder(rows)

(***************************************************************************)
(* C12: whatever the store holds, the active rows of the main window and   *)
(* the rows of an open mini window are exactly the tasks that are not      *)
(* completed, every prioritized one before every unprioritized one and     *)
(* insertion order kept inside each of the two groups; the completed rows  *)
(* of the main window are exactly the completed tasks in insertion order;  *)
(* the mini window shows no completed task.                                *)
(***************************************************************************)
C12_Projection ==
    /\ ActiveProjection(mainActive, tasks)
    /\ CompletedProjection(mainCompleted, tasks)
    /\ mini_window = "visible" =>
          /\ ActiveProjection(miniRows, tasks)
          /\ \A j \in 1 .. Len(miniRows) : ~tasks[miniRows[j] + 1].completed

\* the store [A, B (prioritized), C] shown in the mini window as [B, A, C],
\* as the main window already showed it
C12_Witness ==
    /\ Len(tasks) = 3
    /\ \A j \in 1 .. 3 : ~tasks[j].completed
    /\ ~tasks[1].prioritized /\ tasks[2].prioritized /\ ~tasks[3].prioritized
    /\ mainActive = <<1, 0, 2>>
    /\ mini_window = "visible"
    /\ miniRows = <<1, 0, 2>>

(***************************************************************************)
(* C13: from the main window shown, through any sequence of the user's     *)
(* actions, exactly one of the main window and the mini window is visible; *)
(* opening the mini window happens only while no mini window is open,      *)
(* shows it and hides the main window; going back closes the mini window   *)
(* and shows the main window.                                              *)
(***************************************************************************)
ExactlyOneVisible ==
    \/ mainVisible /\ mini_window # "visible"
    \/ ~mainVisible /\ mini_window = "visible"

C13_OneSurfaceVisible ==
    /\ []ExactlyOneVisible
    /\ [][/\ SwitchToMini =>
                /\ mini_window # "visible"
                /\ mini_window' = "visible"
                /\ ~mainVisible'
          /\ BackToMain =>
                /\ mini_window' # "visible"
                /\ mainVisible']_vars

\* the user has been to the mini window and is back in the main window
C13_Witness ==
    /\ last = "show_main_window"
    /\ mainVisible
    /\ mini_window = "hidden"

(***************************************************************************)
(* C14: a window unsubscribes from data_changed when it closes: while the  *)
(* mini window is closed the only subscriber is the main window, as before *)
(* the mini window was first opened, and a step that leaves the mini       *)
(* window closed does not re-render it.                                    *)
(* MiniWindow.show_main_window only calls close(); the connection made in  *)
(* MiniWindow.__init__ is never undone, so the closed window's update_ui   *)
(* runs on every later emit.                                               *)
(***************************************************************************)
C14_ClosedMiniUnsubscribed ==
    \* 1: the main window alone, as at start
    /\ [](mini_window # "visible" => Subscribers = 1)
    /\ [][(mini_window = "hidden" /\ mini_window' = "hidden")
             => miniRows' = miniRows]_vars

(***************************************************************************)
(* C15: in every reachable state every task of the store has a non-empty   *)
(* description, and so has every record of a file that save has just       *)
(* written.                                                                *)
(* add_task and edit_task refuse an empty description, but load_tasks      *)
(* tests only that the "description" key is present: a record whose        *)
(* description is "" becomes a task.                                       *)
(***************************************************************************)
C15_DescriptionNonEmpty ==
    /\ \A j \in 1 .. Len(tasks) : tasks[j].description # << >>
    /\ (WriteSucceeded(events) /\ file.kind = "array") =>
          \A j \in 1 .. Len(file.items) :
              /\ HasField(file.items[j], "description")
              /\ file.items[j].fields.description # << >>

(***************************************************************************)
(* C16: through every sequence of mutations and window switches, the rows  *)
(* of every window subscribed to data_changed are its projection of the    *)
(* current store: the main window's active and completed rows (also while  *)
(* it is hidden behind the mini window, so that it shows the current store *)
(* when it is shown again), the mini window's rows; every task of the      *)
(* store is in exactly one of the two sections of the main window; and     *)
(* the "Completed N" header shows the number of completed tasks.           *)
(***************************************************************************)
InExactlyOneSection(p) ==
    Cardinality({j \in 1 .. Len(mainActive) : mainActive[j] = p})
    + Cardinality({j \in 1 .. Len(mainCompleted) : mainCompleted[j] = p}) = 1

C16_ViewConsistency ==
    /\ ActiveProjection(mainActive, tasks)
    /\ CompletedProjection(mainCompleted, tasks)
    /\ MiniConnected => ActiveProjection(miniRows, tasks)
    /\ \A p \in 0 .. Len(tasks) - 1 : InExactlyOneSection(p)
    /\ completedHeader = Cardinality({p \in 1 .. Len(tasks) : tasks[p].completed})

\* a task has just been completed from its row in the mini window: the
\* hidden main window already has it in its completed section, and the mini
\* window no longer shows it
C16_Witness ==
    /\ last = "toggle_complete"
    /\ toggle_before # << >>
    /\ ~mainVisible
    /\ mini_window = "visible"
    /\ tasks[toggle_before[1].index + 1].completed
    /\ toggle_before[1].index \in Elems(mainCompleted)
    /\ toggle_before[1].index \notin Elems(miniRows)
    /\ completedHeader = Len(mainCompleted)

====
